---- MODULE Spec2Model ----
(***************************************************************************)
(* terraform-provider-synclocal: the conditional-sync engine.              *)
(*                                                                         *)
(* One resource instance (synclocal_file or synclocal_url) over a small    *)
(* filesystem holding its source and its destination.  Each handler of     *)
(* internal/provider (Create, Read, Update, Delete, CustomizeDiff) is one  *)
(* action.  Files are byte sequences with a mode; SHA-256 is an injective  *)
(* tagging of the byte sequence; file_mode strings are digit sequences     *)
(* parsed as strconv.ParseUint(s, 8, 32) parses them.                      *)
(*                                                                         *)
(* SpecConc is a second specification: two writers running the body of     *)
(* copyFile / writeResponseBody on one destination path, step by step.     *)
(***************************************************************************)
EXTENDS Integers, Sequences, FiniteSets, TLC

VARIABLES
    kind,     \* "file" (synclocal_file) or "url" (synclocal_url)
    fs,       \* the filesystem: absolute path -> [exists, content, mode]
    data,     \* the schema.ResourceData the lifecycle driver keeps
    plan,     \* outcome of the last CustomizeDiff, and the apply stage
    last,     \* what the last handler call did: op, result, I/O log, ...
    cpath,    \* SpecConc: inode linked at the destination path (0: none)
    inodes,   \* SpecConc: inode -> bytes
    writers,  \* SpecConc: writer -> [pc, content, ino, off]
    arg,      \* SpecClassify, SpecCodec: the input of the function applied
    out       \* SpecClassify, SpecCodec: what the function returned

vars == <<kind, fs, data, plan, last, cpath, inodes, writers, arg, out>>

----------------------------------------------------------------------------
(* Bounds of the model *)

MaxLen == 2

\* one byte value: files differ by their length, and a partial write is a
\* shorter file
Bytes == {1}

Contents == UNION {[1..n -> Bytes] : n \in 0..MaxLen}

Min(a, b) == IF a < b THEN a ELSE b

Prefix(c, n) == SubSeq(c, 1, Min(n, Len(c)))

----------------------------------------------------------------------------
(* Strings: sequences of one-character strings *)

\* strings.Index, counted from 1: 0 when c does not occur
IndexOf(s, c) ==
    LET at == {i \in 1..Len(s) : s[i] = c}
    IN IF at = {} THEN 0 ELSE CHOOSE i \in at : \A j \in at : i <= j

\* strings.LastIndex, counted from 1
LastIndexOf(s, c) ==
    LET at == {i \in 1..Len(s) : s[i] = c}
    IN IF at = {} THEN 0 ELSE CHOOSE i \in at : \A j \in at : i >= j

\* strings.HasPrefix
HasPrefix(s, p) == Len(p) <= Len(s) /\ SubSeq(s, 1, Len(p)) = p

\* strings.Contains
Contains(s, sub) ==
    \E i \in 0..(Len(s) - Len(sub)) : SubSeq(s, i + 1, i + Len(sub)) = sub

\* strings.TrimLeft(s, " ")
TrimLeft(s) ==
    LET kept == {i \in 1..Len(s) : s[i] # " "}
    IN IF kept = {} THEN <<>>
       ELSE SubSeq(s, CHOOSE i \in kept : \A j \in kept : i <= j, Len(s))

----------------------------------------------------------------------------
(* Program constants *)

\* os.FileMode(0664): the remote variant's default mode
DefaultURLMode == 436

\* os.FileMode(0644): writeResponseBody's fallback for mode 0
FallbackBodyMode == 420

StatusOK == 200
StatusNotModified == 304
StatusUnauthorized == 401
StatusForbidden == 403

----------------------------------------------------------------------------
(* Paths and the identity codec *)

\* A path or an identifier is a string, a sequence of characters; a run of
\* characters that no function below looks into is written as one element.

\* longest path, in characters, the codec is applied to
MaxPath == 4

\* os.Getwd
Cwd == <<"/", "work">>

\* the configured paths, relative as in the acceptance tests
SourcePath == <<".", "/", "testdata", "/", "source-file01">>
DestPath == <<".", "/", "testdata", "/", "dest-file">>

\* filepath.IsAbs
IsAbs(p) == p # <<>> /\ p[1] = "/"

\* the elements of a path between its separators
RECURSIVE Elements(_)
ElementsAt(p, k) ==
    IF k = 0 THEN <<p>>
    ELSE <<SubSeq(p, 1, k - 1)>> \o Elements(SubSeq(p, k + 1, Len(p)))

Elements(p) == ElementsAt(p, IndexOf(p, "/"))

\* filepath.Clean on the elements of a rooted path: empty elements and "."
\* dropped, ".." taking the element before it, or nothing at the root
RECURSIVE Lexical(_, _)
Lexical(elems, kept) ==
    IF elems = <<>> THEN kept
    ELSE IF Head(elems) \in {<<>>, <<".">>}
    THEN Lexical(Tail(elems), kept)
    ELSE IF Head(elems) = <<".", ".">>
    THEN Lexical(Tail(elems), SubSeq(kept, 1, Len(kept) - 1))
    ELSE Lexical(Tail(elems), Append(kept, Head(elems)))

RECURSIVE Rooted(_)
Rooted(elems) ==
    IF elems = <<>> THEN <<>>
    ELSE <<"/">> \o Head(elems) \o Rooted(Tail(elems))

RootIfEmpty(p) == IF p = <<>> THEN <<"/">> ELSE p

\* filepath.Clean of a rooted path
Clean(p) == RootIfEmpty(Rooted(Lexical(Elements(p), <<>>)))

\* filepath.Abs: Clean of an absolute path, else filepath.Join(wd, path)
Abs(p) == IF IsAbs(p) THEN Clean(p) ELSE Clean(Cwd \o <<"/">> \o p)

\* the characters url.URL.EscapedPath writes as "%" and their two hex digits
PercentCode ==
    ("%" :> <<"2", "5">>) @@ ("?" :> <<"3", "F">>) @@ ("#" :> <<"2", "3">>)
    @@ (" " :> <<"2", "0">>)

\* variant: the path written into the identifier as it is
escape_None(s) == s

\* url.escape(path, encodePath)
RECURSIVE escape(_)
escape(s) ==
    IF s = <<>> THEN <<>>
    ELSE IF Head(s) \in DOMAIN PercentCode
    THEN <<"%">> \o PercentCode[Head(s)] \o escape(Tail(s))
    ELSE <<Head(s)>> \o escape(Tail(s))

SchemeFile == <<"f", "i", "l", "e">>

\* (*url.URL).String of a URL that has a scheme and a path only
URLString(scheme, path) ==
    scheme \o <<":">> \o (IF path # <<>> THEN <<"/", "/">> ELSE <<>>)
    \o escape(path)

NoId == <<>>

\* the identifiers of the configured paths, computed once
ConfiguredIds ==
    [file \in {SourcePath, DestPath} |-> URLString(SchemeFile, Abs(file))]

fileToID(file) ==
    IF file \in DOMAIN ConfiguredIds THEN ConfiguredIds[file]
    ELSE URLString(SchemeFile, Abs(file))

HexDigits ==
    {"0", "1", "2", "3", "4", "5", "6", "7", "8", "9",
     "a", "b", "c", "d", "e", "f", "A", "B", "C", "D", "E", "F"}

\* the characters whose hex codes are read here
ByteOf ==
    (<<"2", "5">> :> "%") @@ (<<"3", "F">> :> "?") @@ (<<"2", "3">> :> "#")
    @@ (<<"2", "0">> :> " ") @@ (<<"2", "F">> :> "/")

\* unhex: any other byte is written by its code
Byte(h1, h2) ==
    IF <<h1, h2>> \in DOMAIN ByteOf THEN ByteOf[<<h1, h2>>]
    ELSE "\\x" \o h1 \o h2

Unescaped(s) == [err |-> FALSE, s |-> s]
EscapeError == [err |-> TRUE, s |-> <<>>]

Preceded(c, r) == IF r.err THEN r ELSE Unescaped(<<c>> \o r.s)

\* url.unescape(s, encodePath)
RECURSIVE unescape(_)
unescape(s) ==
    IF s = <<>> THEN Unescaped(<<>>)
    ELSE IF Head(s) # "%" THEN Preceded(Head(s), unescape(Tail(s)))
    ELSE IF Len(s) < 3 \/ s[2] \notin HexDigits \/ s[3] \notin HexDigits
    THEN EscapeError
    ELSE Preceded(Byte(s[2], s[3]), unescape(SubSeq(s, 4, Len(s))))

\* the letters of the schemes read here, and their lower case
LowerOf == ("F" :> "f") @@ ("I" :> "i") @@ ("L" :> "l") @@ ("E" :> "e")
Letters == {"a", "e", "f", "h", "i", "l", "p", "t"} \cup DOMAIN LowerOf

\* strings.ToLower
ToLower(s) ==
    [i \in 1..Len(s) |-> IF s[i] \in DOMAIN LowerOf THEN LowerOf[s[i]] ELSE s[i]]

\* what getScheme accepts at position i
SchemeChar(s, i) ==
    \/ s[i] \in Letters
    \/ i > 1 /\ s[i] \in {"0", "1", "2", "3", "4", "5", "6", "7", "8", "9", "+", "-", "."}

\* the first position that does not continue a scheme, 0 if none
SchemeStop(s) ==
    LET stops == {i \in 1..Len(s) : ~SchemeChar(s, i)}
    IN IF stops = {} THEN 0 ELSE CHOOSE i \in stops : \A j \in stops : i <= j

URL(scheme, path) == [err |-> FALSE, scheme |-> scheme, path |-> path]
ParseError == [err |-> TRUE, scheme |-> <<>>, path |-> <<>>]

\* setPath
WithPath(scheme, u) == IF u.err THEN ParseError ELSE URL(scheme, u.s)

\* the rest after "//": the authority dropped, the path from its next "/"
AfterAuthority(rest, k) == IF k = 0 THEN <<>> ELSE SubSeq(rest, k, Len(rest))

\* url.parse once the scheme, the query and the fragment are cut off
ParseRest(scheme, rest) ==
    IF ~HasPrefix(rest, <<"/">>) /\ scheme # <<>>
    THEN URL(scheme, <<>>)
    ELSE IF /\ ~HasPrefix(rest, <<"/">>)
            /\ IndexOf(Head(Elements(rest)), ":") # 0
    THEN ParseError
    ELSE IF /\ scheme # <<>> \/ ~HasPrefix(rest, <<"/", "/", "/">>)
            /\ HasPrefix(rest, <<"/", "/">>)
    THEN WithPath(scheme,
                  unescape(AfterAuthority(SubSeq(rest, 3, Len(rest)),
                                          IndexOf(SubSeq(rest, 3, Len(rest)), "/"))))
    ELSE WithPath(scheme, unescape(rest))

\* a string up to its first c
Before(s, c) == IF IndexOf(s, c) = 0 THEN s ELSE SubSeq(s, 1, IndexOf(s, c) - 1)

\* getScheme, then the rest
ParseFrom(raw, stop) ==
    IF stop = 0 \/ raw[stop] # ":"
    THEN ParseRest(<<>>, Before(raw, "?"))
    ELSE IF stop = 1
    THEN ParseError
    ELSE ParseRest(ToLower(SubSeq(raw, 1, stop - 1)),
                   Before(SubSeq(raw, stop + 1, Len(raw)), "?"))

ParseNoFragment(raw) == ParseFrom(raw, SchemeStop(raw))

\* url.Parse
Parse(rawURL) == ParseNoFragment(Before(rawURL, "#"))

\* the path of a parsed identifier whose scheme is "file"
FileOf(u) ==
    IF u.err THEN [err |-> "InvalidFormat", file |-> <<>>]
    ELSE IF u.scheme # SchemeFile THEN [err |-> "InvalidID", file |-> <<>>]
    ELSE [err |-> "", file |-> Abs(u.path)]

\* the files of the identifiers a resource stores, computed once
StoredFiles ==
    [id \in {NoId} \cup {ConfiguredIds[file] : file \in DOMAIN ConfiguredIds} |->
        FileOf(Parse(id))]

idToFile(id) ==
    IF id \in DOMAIN StoredFiles THEN StoredFiles[id] ELSE FileOf(Parse(id))

Src == Abs(SourcePath)
Dst == Abs(DestPath)

----------------------------------------------------------------------------
(* Files *)

NoFile == [exists |-> FALSE, content |-> <<>>, mode |-> 0]

File(c, m) == [exists |-> TRUE, content |-> c, mode |-> m]

\* the modes files are given from outside the provider: the source 0644,
\* the destination 0644 or 0600
SourceModes == {420}
DestModes == {420, 384}

\* the name a path has in the I/O log
Name(p) == IF p = Src THEN "source" ELSE "dest"

----------------------------------------------------------------------------
(* Content fingerprint *)

NoHash == <<"", <<>>>>

Sha256Hex(c) == <<"sha256", c>>

\* os.Open fails with a not-found error, or the file cannot be read
hashFile(files, filename, flt) ==
    IF ~files[filename].exists
    THEN [err |-> "NotFound", hash |-> NoHash]
    ELSE IF flt.kind = "hash_" \o Name(filename)
    THEN [err |-> "IOError", hash |-> NoHash]
    ELSE [err |-> "", hash |-> Sha256Hex(files[filename].content)]

----------------------------------------------------------------------------
(* file_mode: a string of digits, "" when the attribute is not set *)

NoModeStr == <<>>

ModeStrings == {<<>>, <<0>>, <<6, 0, 0>>, <<9>>}

RECURSIVE OctalValue(_)
OctalValue(s) ==
    IF s = <<>> THEN 0
    ELSE 8 * OctalValue(SubSeq(s, 1, Len(s) - 1)) + s[Len(s)]

RECURSIVE StripZeros(_)
StripZeros(s) ==
    IF s # <<>> /\ s[1] = 0 THEN StripZeros(Tail(s)) ELSE s

\* the value does not fit 32 bits: more than 11 significant octal digits, or
\* 11 of them with a leading digit above 3
OutOfRange32(s) ==
    LET t == StripZeros(s)
    IN Len(t) > 11 \/ (Len(t) = 11 /\ t[1] > 3)

\* strconv.ParseUint(v, 8, 32)
ParseUint8(s) ==
    IF s = <<>> \/ (\E i \in 1..Len(s) : s[i] > 7) \/ OutOfRange32(s)
    THEN [err |-> "InvalidMode", val |-> 0]
    ELSE [err |-> "", val |-> OctalValue(s)]

----------------------------------------------------------------------------
(* Injected I/O faults: which system call of the handler fails *)

Fault(k) == [kind |-> k, at |-> 0]

\* a failed close leaves any prefix of the bytes on disk
WriteFaults(bytes) ==
    {Fault("open_dest"), Fault("copy")}
    \cup {[kind |-> "close", at |-> n] : n \in 0..Len(bytes)}

\* the calls that can fail in ensureCopyFile, given the files it finds
CopyFaults(files) ==
    {Fault("none")}
    \cup (IF ~files[Src].exists THEN {}
         ELSE IF files[Dst].exists /\ files[Dst].content = files[Src].content
         THEN {Fault("stat_dest"), Fault("stat_source"), Fault("chmod")}
         ELSE {Fault("stat_source")} \cup WriteFaults(files[Src].content))

\* the calls that can fail in ensureDownloadFile, given the response
FetchFaults(resp) ==
    {Fault("none")}
    \cup (IF resp.transport = "ok" /\ resp.status = StatusOK
         THEN WriteFaults(resp.body) ELSE {})

\* the calls that can fail in resourceURLRead: the stat of the backing file
\* (no request is sent then), and those of ensureDownloadFile
ReadFetchFaults(resp) ==
    IF resp.transport = "fail"
    THEN {Fault("none"), Fault("stat_dest")}
    ELSE FetchFaults(resp)

DeleteFaults == {Fault("none"), Fault("stat_dest"), Fault("remove")}

\* the backing file exists and cannot be read
ReadFaults == {Fault("none"), Fault("hash_dest")}

NoFault == Fault("none")

Ret(files, d, log, res) == [fs |-> files, data |-> d, log |-> log, res |-> res]

----------------------------------------------------------------------------
(* Local copy engine *)

\* os.OpenFile(name, O_CREATE|O_TRUNC|O_WRONLY, mode): an existing file is
\* truncated and keeps its mode; a new file is created with the mode given
OpenTrunc(files, name, mode) ==
    [files EXCEPT ![name] =
        IF files[name].exists
        THEN File(<<>>, files[name].mode)
        ELSE File(<<>>, mode)]

\* the destination once opened: io.Copy, the cleanup and the deferred Close
\* (copyFile lines 507-519, writeResponseBody lines 283-295)
StreamInto(files, destination, bytes, flt, log) ==
    IF flt.kind = "copy"
    THEN [fs |-> [files EXCEPT ![destination] = NoFile],
          log |-> log \o <<"write_dest", "close_dest", "remove_dest", "close_dest">>,
          err |-> "IOError"]
    ELSE IF flt.kind = "close"
    THEN [fs |-> [files EXCEPT ![destination].content = Prefix(bytes, flt.at)],
          log |-> log \o <<"write_dest", "close_dest">>,
          err |-> "IOError"]
    ELSE [fs |-> [files EXCEPT ![destination].content = bytes],
          log |-> log \o <<"write_dest", "close_dest">>,
          err |-> ""]

copyFile(files, source, destination, mode, flt) ==
    IF ~files[source].exists
    THEN [fs |-> files, log |-> <<"open_source">>, err |-> "NotFound"]
    ELSE
    LET statLog == IF mode = 0 THEN <<"open_source", "stat_source">>
                   ELSE <<"open_source">>
    IN
    IF mode = 0 /\ flt.kind = "stat_source"
    THEN [fs |-> files, log |-> statLog, err |-> "IOError"]
    ELSE
    LET m == IF mode = 0 THEN files[source].mode ELSE mode
    IN
    IF flt.kind = "open_dest"
    THEN [fs |-> files, log |-> statLog \o <<"open_dest">>, err |-> "IOError"]
    ELSE StreamInto(OpenTrunc(files, destination, m), destination,
                    files[source].content, flt, statLog \o <<"open_dest">>)

\* variant: the mode compared but never changed
ensureFileMode_NoChmod(files, d, log0, flt) ==
    LET log1 == log0 \o <<"stat_dest">>
    IN
    IF flt.kind = "stat_dest" \/ ~files[Dst].exists
    THEN Ret(files, d, log1, "IOError")
    ELSE IF d.file_mode # NoModeStr /\ ParseUint8(d.file_mode).err # ""
    THEN Ret(files, d, log1, "InvalidMode")
    ELSE IF d.file_mode = NoModeStr /\ (flt.kind = "stat_source" \/ ~files[Src].exists)
    THEN Ret(files, d, log1 \o <<"stat_source">>, "IOError")
    ELSE Ret(files, d,
             IF d.file_mode # NoModeStr THEN log1 ELSE log1 \o <<"stat_source">>, "")

ensureFileMode(files, d, log0, flt) ==
    LET log1 == log0 \o <<"stat_dest">>
    IN
    IF flt.kind = "stat_dest" \/ ~files[Dst].exists
    THEN Ret(files, d, log1, "IOError")
    ELSE IF d.file_mode # NoModeStr /\ ParseUint8(d.file_mode).err # ""
    THEN Ret(files, d, log1, "InvalidMode")
    ELSE IF d.file_mode = NoModeStr /\ (flt.kind = "stat_source" \/ ~files[Src].exists)
    THEN Ret(files, d, log1 \o <<"stat_source">>, "IOError")
    ELSE
    LET mode == IF d.file_mode # NoModeStr THEN ParseUint8(d.file_mode).val
                ELSE files[Src].mode
        log2 == IF d.file_mode # NoModeStr THEN log1 ELSE log1 \o <<"stat_source">>
    IN
    IF mode = files[Dst].mode
    THEN Ret(files, d, log2, "")
    ELSE IF flt.kind = "chmod"
    THEN Ret(files, d, log2 \o <<"chmod_dest">>, "IOError")
    ELSE Ret([files EXCEPT ![Dst].mode = mode], d, log2 \o <<"chmod_dest">>, "")

\* variant: the short-circuit taken whenever the destination exists, without
\* comparing the fingerprints
ensureCopyFile_ExistsOnly(files, d, flt) ==
    LET sourceHash == hashFile(files, Src, flt)
    IN
    IF sourceHash.err # ""
    THEN Ret(files, d, <<"hash_source">>, sourceHash.err)
    ELSE
    LET destHash == hashFile(files, Dst, flt)
        log1 == <<"hash_source", "hash_dest">>
    IN
    IF destHash.err = ""
    THEN ensureFileMode(files, d, log1, flt)
    ELSE IF d.file_mode # NoModeStr /\ ParseUint8(d.file_mode).err # ""
    THEN Ret(files, d, log1, "InvalidMode")
    ELSE
    LET mode == IF d.file_mode # NoModeStr THEN ParseUint8(d.file_mode).val ELSE 0
        cp == copyFile(files, Src, Dst, mode, flt)
    IN
    IF cp.err # ""
    THEN Ret(cp.fs, d, log1 \o cp.log, cp.err)
    ELSE Ret(cp.fs, [d EXCEPT !.content_sha256 = sourceHash.hash],
             log1 \o cp.log, "")

\* variant: file_mode parsed only after the destination was opened and truncated
ensureCopyFile_ParseLate(files, d, flt) ==
    LET sourceHash == hashFile(files, Src, flt)
    IN
    IF sourceHash.err # ""
    THEN Ret(files, d, <<"hash_source">>, sourceHash.err)
    ELSE
    LET destHash == hashFile(files, Dst, flt)
        log1 == <<"hash_source", "hash_dest">>
    IN
    IF destHash.err = "" /\ destHash.hash = sourceHash.hash
    THEN ensureFileMode(files, d, log1, flt)
    ELSE IF d.file_mode # NoModeStr /\ ParseUint8(d.file_mode).err # ""
    THEN Ret(OpenTrunc(files, Dst, 0), d, log1 \o <<"open_source", "open_dest">>,
             "InvalidMode")
    ELSE
    LET mode == IF d.file_mode # NoModeStr THEN ParseUint8(d.file_mode).val ELSE 0
        cp == copyFile(files, Src, Dst, mode, flt)
    IN
    IF cp.err # ""
    THEN Ret(cp.fs, d, log1 \o cp.log, cp.err)
    ELSE Ret(cp.fs, [d EXCEPT !.content_sha256 = sourceHash.hash],
             log1 \o cp.log, "")

ensureCopyFile(files, d, flt) ==
    LET sourceHash == hashFile(files, Src, flt)
    IN
    IF sourceHash.err # ""
    THEN Ret(files, d, <<"hash_source">>, sourceHash.err)
    ELSE
    LET destHash == hashFile(files, Dst, flt)
        log1 == <<"hash_source", "hash_dest">>
    IN
    IF destHash.err = "" /\ destHash.hash = sourceHash.hash
    THEN ensureFileMode(files, d, log1, flt)
    ELSE IF d.file_mode # NoModeStr /\ ParseUint8(d.file_mode).err # ""
    THEN Ret(files, d, log1, "InvalidMode")
    ELSE
    LET mode == IF d.file_mode # NoModeStr THEN ParseUint8(d.file_mode).val ELSE 0
        cp == copyFile(files, Src, Dst, mode, flt)
    IN
    IF cp.err # ""
    THEN Ret(cp.fs, d, log1 \o cp.log, cp.err)
    ELSE Ret(cp.fs, [d EXCEPT !.content_sha256 = sourceHash.hash],
             log1 \o cp.log, "")

\* variant: a Read that clears the identity and the fingerprint of a file it
\* cannot find, and removes what is left at the path
resourceFileRead_Tidies(files, d, log0, flt) ==
    LET f == idToFile(d.id)
    IN
    IF f.err # ""
    THEN Ret(files, d, log0, f.err)
    ELSE
    LET fileHash == hashFile(files, f.file, flt)
        log1 == log0 \o <<"hash_" \o Name(f.file)>>
    IN
    IF fileHash.err = "NotFound"
    THEN Ret(files, [d EXCEPT !.id = NoId], log1, "")
    ELSE IF fileHash.err # ""
    THEN Ret([files EXCEPT ![f.file] = NoFile], [d EXCEPT !.id = NoId], log1, "")
    ELSE Ret(files, [d EXCEPT !.content_sha256 = fileHash.hash], log1, "")

resourceFileRead(files, d, log0, flt) ==
    LET f == idToFile(d.id)
    IN
    IF f.err # ""
    THEN Ret(files, d, log0, f.err)
    ELSE
    LET fileHash == hashFile(files, f.file, flt)
        log1 == log0 \o <<"hash_" \o Name(f.file)>>
    IN
    IF fileHash.err = "NotFound"
    THEN Ret(files, [d EXCEPT !.id = NoId], log1, "")
    ELSE IF fileHash.err # ""
    THEN Ret(files, d, log1, fileHash.err)
    ELSE Ret(files, [d EXCEPT !.content_sha256 = fileHash.hash], log1, "")

resourceFileUpdate(files, d, flt) ==
    LET r == ensureCopyFile(files, d, flt)
    IN
    IF r.res # "" THEN r
    ELSE resourceFileRead(r.fs, r.data, r.log, flt)

\* variant: the identity set before the copy is attempted
resourceFileCreate_IdFirst(files, d, flt) ==
    LET r == ensureCopyFile(files, [d EXCEPT !.id = fileToID(DestPath)], flt)
    IN r

resourceFileCreate(files, d, flt) ==
    LET r == ensureCopyFile(files, d, flt)
    IN
    IF r.res # "" THEN r
    ELSE Ret(r.fs, [r.data EXCEPT !.id = fileToID(DestPath)], r.log, "")

\* variant: a Delete that reports the missing file
resourceDelete_FailsWhenAbsent(files, d, flt) ==
    LET f == idToFile(d.id)
    IN
    IF f.err # ""
    THEN Ret(files, d, <<>>, f.err)
    ELSE IF ~files[f.file].exists
    THEN Ret(files, d, <<"stat_" \o Name(f.file)>>, "NotFound")
    ELSE Ret([files EXCEPT ![f.file] = NoFile], d,
             <<"stat_" \o Name(f.file), "remove_" \o Name(f.file)>>, "")

\* resourceFileDelete and resourceURLDelete are the same code
resourceDelete(files, d, flt) ==
    LET f == idToFile(d.id)
    IN
    IF f.err # ""
    THEN Ret(files, d, <<>>, f.err)
    ELSE
    LET name == f.file
        log1 == <<"stat_" \o Name(name)>>
    IN
    IF ~files[name].exists
    THEN Ret(files, d, log1, "")
    ELSE IF flt.kind = "stat_dest"
    THEN Ret(files, d, log1, "IOError")
    ELSE IF flt.kind = "remove"
    THEN Ret(files, d, log1 \o <<"remove_" \o Name(name)>>, "IOError")
    ELSE Ret([files EXCEPT ![name] = NoFile], d,
             log1 \o <<"remove_" \o Name(name)>>, "")

\* resourceFile's CustomizeDiff: "recompute" is SetNewComputed("content_sha256")
\* variant: the source fingerprinted before the destination is looked at
customizeDiffFile_SourceFirst(files, flt) ==
    LET srcHash == hashFile(files, Src, flt)
        destHash == hashFile(files, Dst, flt)
        log1 == <<"hash_source", "hash_dest">>
    IN
    IF srcHash.err # ""
    THEN [res |-> srcHash.err, plan |-> "error", log |-> <<"hash_source">>]
    ELSE IF destHash.hash # srcHash.hash
    THEN [res |-> "", plan |-> "recompute", log |-> log1]
    ELSE [res |-> "", plan |-> "clean", log |-> log1]

customizeDiffFile(files, flt) ==
    LET destHash == hashFile(files, Dst, flt)
    IN
    IF destHash.err = "NotFound"
    THEN [res |-> "", plan |-> "recompute", log |-> <<"hash_dest">>]
    ELSE
    LET srcHash == hashFile(files, Src, flt)
        log1 == <<"hash_dest", "hash_source">>
    IN
    IF srcHash.err # ""
    THEN [res |-> srcHash.err, plan |-> "error", log |-> log1]
    ELSE IF destHash.hash # srcHash.hash
    THEN [res |-> "", plan |-> "recompute", log |-> log1]
    ELSE [res |-> "", plan |-> "clean", log |-> log1]

----------------------------------------------------------------------------
(* Remote fetch engine *)

\* the Content-Type headers of the responses
NoContentType ==
    <<>>

TextPlainUTF8 ==
    <<"t", "e", "x", "t", "/", "p", "l", "a", "i", "n", ";", " ", "c", "h",
      "a", "r", "s", "e", "t", "=", "u", "t", "f", "-", "8">>

TextHTML ==
    <<"t", "e", "x", "t", "/", "h", "t", "m", "l">>

ApplicationJSON ==
    <<"a", "p", "p", "l", "i", "c", "a", "t", "i", "o", "n", "/", "j", "s",
      "o", "n">>

ApplicationLDJSON ==
    <<"a", "p", "p", "l", "i", "c", "a", "t", "i", "o", "n", "/", "l", "d",
      "+", "j", "s", "o", "n">>

ApplicationXML ==
    <<"a", "p", "p", "l", "i", "c", "a", "t", "i", "o", "n", "/", "x", "m",
      "l">>

ApplicationXYAML ==
    <<"a", "p", "p", "l", "i", "c", "a", "t", "i", "o", "n", "/", "x", "-",
      "y", "a", "m", "l">>

ApplicationYAML ==
    <<"a", "p", "p", "l", "i", "c", "a", "t", "i", "o", "n", "/", "y", "a",
      "m", "l">>

OctetStream ==
    <<"a", "p", "p", "l", "i", "c", "a", "t", "i", "o", "n", "/", "o", "c",
      "t", "e", "t", "-", "s", "t", "r", "e", "a", "m">>

ImageSVG ==
    <<"i", "m", "a", "g", "e", "/", "s", "v", "g", "+", "x", "m", "l">>

NoSubtype ==
    <<"a", "p", "p", "l", "i", "c", "a", "t", "i", "o", "n", "/">>

NoSuffix ==
    <<"a", "p", "p", "l", "i", "c", "a", "t", "i", "o", "n", "/", "x", "+">>

NoSlash ==
    <<"t", "e", "x", "t">>

BadParameter ==
    <<"t", "e", "x", "t", "/", "p", "l", "a", "i", "n", ";", " ", "c", "h",
      "a", "r", "s", "e", "t">>

ContentTypes ==
    {NoContentType, TextPlainUTF8, TextHTML, ApplicationJSON,
     ApplicationLDJSON, ApplicationXML, ApplicationXYAML, OctetStream,
     ImageSVG, NoSubtype, NoSuffix, NoSlash,
     BadParameter, ApplicationYAML}

\* the bodies of the acceptance test's 401 and 403
NotAuthorizedText ==
    <<"n", "o", "t", " ", "a", "u", "t", "h", "o", "r", "i", "z", "e", "d">>

ForbiddenText ==
    <<"f", "o", "r", "b", "i", "d", "d", "e", "n">>

ErrorTexts == {<<>>, NotAuthorizedText, ForbiddenText}

\* the summaries of lines 202, 204 and 206
Summary401 ==
    <<"t", "h", "i", "s", " ", "u", "r", "l", " ", "r", "e", "q", "u", "i",
      "r", "e", "s", " ", "a", "u", "t", "h", "o", "r", "i", "z", "a", "t",
      "i", "o", "n", ".", " ", "Y", "o", "u", " ", "m", "a", "y", " ", "n",
      "e", "e", "d", " ", "t", "o", " ", "a", "d", "d", " ", "A", "u", "t",
      "h", "o", "r", "i", "z", "a", "t", "i", "o", "n", " ", "h", "e", "a",
      "d", "e", "r", " ", "t", "o", " ", "t", "h", "i", "s", " ", "r", "e",
      "s", "o", "u", "r", "c", "e">>

Summary403 ==
    <<"t", "h", "e", " ", "s", "e", "r", "v", "e", "r", " ", "r", "e", "j",
      "e", "c", "t", "e", "d", " ", "y", "o", "u", "r", " ", "a", "u", "t",
      "h", " ", "c", "r", "e", "d", "e", "n", "t", "i", "a", "l", "s", ".",
      " ", "T", "h", "e", "y", " ", "m", "a", "y", " ", "b", "e", " ", "e",
      "x", "p", "i", "r", "e", "d", " ", "o", "r", " ", "y", "o", "u", " ",
      "m", "a", "y", " ", "n", "o", "t", " ", "b", "e", " ", "a", "l", "l",
      "o", "w", "e", "d", " ", "t", "o", " ", "d", "o", "w", "n", "l", "o",
      "a", "d", " ", "t", "h", "i", "s", " ", "a", "n", "y", "m", "o", "r",
      "e", ".">>

SummaryUnexpected ==
    <<"t", "h", "e", " ", "s", "e", "r", "v", "e", "r", " ", "r", "e", "t",
      "u", "r", "n", "e", "d", " ", "a", "n", " ", "u", "n", "e", "x", "p",
      "e", "c", "t", "e", "d", " ", "r", "e", "s", "p", "o", "n", "s", "e",
      " ", "c", "o", "d", "e", ":", " ">>

\* resp.Status of the statuses a server answers with here
Status204 ==
    <<"2", "0", "4", " ", "N", "o", " ", "C", "o", "n", "t", "e", "n", "t">>

Status404 ==
    <<"4", "0", "4", " ", "N", "o", "t", " ", "F", "o", "u", "n", "d">>

Status500 ==
    <<"5", "0", "0", " ", "I", "n", "t", "e", "r", "n", "a", "l", " ", "S",
      "e", "r", "v", "e", "r", " ", "E", "r", "r", "o", "r">>

TextSlash == <<"t", "e", "x", "t", "/">>

\* the characters of a token of RFC 2045 among those used here
TokenChar(c) == c \notin {"/", ";", " ", "="}

\* the length of the token a string starts with
TokenLen(s) ==
    LET ends == {i \in 1..Len(s) : ~TokenChar(s[i])}
    IN IF ends = {} THEN Len(s)
       ELSE (CHOOSE i \in ends : \A j \in ends : i <= j) - 1

\* a string that is one token
WholeToken(s) == s # <<>> /\ TokenLen(s) = Len(s)

\* the parameters after the media type: "; key=value" any number of times
RECURSIVE ValidParams(_)

\* the value of a parameter, n characters long, and the parameters after it
ParamValue(val, n) == n > 0 /\ ValidParams(SubSeq(val, n + 1, Len(val)))

\* a parameter whose key is k characters long
ParamAt(r, k) ==
    /\ k > 0 /\ k < Len(r)
    /\ r[k + 1] = "="
    /\ ParamValue(SubSeq(r, k + 2, Len(r)), TokenLen(SubSeq(r, k + 2, Len(r))))

ValidParams(rest) ==
    \/ rest = <<>>
    \/ rest[1] = ";" /\ ParamAt(TrimLeft(Tail(rest)), TokenLen(TrimLeft(Tail(rest))))

\* the media type proper: a token t characters long, then nothing, or "/" and
\* a token
WellFormedType(base, t) ==
    /\ t > 0
    /\ (t < Len(base) /\ base[t + 1] = "/")
         => WholeToken(SubSeq(base, t + 2, Len(base)))

ParseParts(base, rest) ==
    IF WellFormedType(base, TokenLen(base)) /\ ValidParams(rest)
    THEN [err |-> FALSE, mt |-> base]
    ELSE [err |-> TRUE, mt |-> <<>>]

\* the header cut at its first ";" (0: none)
ParseAt(v, semi) ==
    IF semi = 0
    THEN ParseParts(v, <<>>)
    ELSE ParseParts(SubSeq(v, 1, semi - 1), SubSeq(v, semi, Len(v)))

\* mime.ParseMediaType: the media type without its parameters, or an error
ParseMediaType(v) == ParseAt(v, IndexOf(v, ";"))

\* the media type with its "+" suffix collapsed, given where its "/" and its
\* last "+" are
NormalizedAt(mt, slash, plus) ==
    IF slash = 0 \/ slash = Len(mt) THEN <<>>
    ELSE IF plus = Len(mt) THEN <<>>
    ELSE IF plus # 0 THEN SubSeq(mt, 1, slash) \o SubSeq(mt, plus + 1, Len(mt))
    ELSE mt

Normalized(p) ==
    IF p.err THEN <<>>
    ELSE NormalizedAt(p.mt, IndexOf(p.mt, "/"), LastIndexOf(p.mt, "+"))

getNormalizedMediaType(contentType) == Normalized(ParseMediaType(contentType))

\* variant: every well-formed media type taken for text
isTextual_AnyType(contentType) ==
    getNormalizedMediaType(contentType) # <<>>

TextualMediaType(mt) ==
    IF mt = <<>> THEN FALSE
    ELSE IF HasPrefix(mt, TextSlash) THEN TRUE
    ELSE mt \in {ApplicationJSON, ApplicationXML, ApplicationYAML, ApplicationXYAML}

isTextual(contentType) == TextualMediaType(getNormalizedMediaType(contentType))

\* resp.Status
StatusLine(status) ==
    IF status = 204 THEN Status204
    ELSE IF status = 404 THEN Status404
    ELSE Status500

Diagnostic(severity, summary, detail) ==
    [severity |-> severity, summary |-> summary, detail |-> detail]

ReadWarning ==
    Diagnostic("Warning",
               <<"c", "o", "u", "l", "d", " ", "n", "o", "t", " ", "r", "e", "a",
                 "d", " ", "r", "e", "s", "p", "o", "n", "s", "e", " ", "b", "o",
                 "d", "y">>, <<>>)

\* variant: a body that cannot be read ends the report with the warning
DiagsFor_WarningOnly(resp, summary, textual) ==
    IF textual /\ resp.readerr
    THEN <<ReadWarning>>
    ELSE <<Diagnostic("Error", summary, IF textual THEN resp.text ELSE <<>>)>>

diagResponseError_WarningOnly(resp, summary) ==
    DiagsFor_WarningOnly(resp, summary, isTextual(resp.ctype))

\* the diagnostics of an error response whose Content-Type is textual or not
DiagsFor(resp, summary, textual) ==
    IF textual /\ resp.readerr
    THEN <<ReadWarning, Diagnostic("Error", summary, <<>>)>>
    ELSE <<Diagnostic("Error", summary, IF textual THEN resp.text ELSE <<>>)>>

diagResponseError(resp, summary) == DiagsFor(resp, summary, isTextual(resp.ctype))

\* the error cases of the switch on resp.StatusCode
responseError(files, d, log, resp) ==
    IF resp.status = StatusUnauthorized
    THEN Ret(files, d, log, "AuthRequired")
            @@ [diags |-> diagResponseError(resp, Summary401)]
    ELSE IF resp.status = StatusForbidden
    THEN Ret(files, d, log, "AuthRejected")
            @@ [diags |-> diagResponseError(resp, Summary403)]
    ELSE Ret(files, d, log, "UnexpectedResponse")
            @@ [diags |-> diagResponseError(resp,
                    SummaryUnexpected \o StatusLine(resp.status))]

HeaderNames == {"Authorization", "If-None-Match", "If-Modified-Since"}

NoHeaders == [h \in HeaderNames |-> ""]

\* the "headers" attribute: absent, the acceptance test's, a conditional one
AuthHeaders == [NoHeaders EXCEPT !["Authorization"] = "Bearer secret"]

CondHeaders ==
    [NoHeaders EXCEPT !["If-None-Match"] = "e0", !["If-Modified-Since"] = "t0"]

\* the configurations of a synclocal_url resource: file_mode and headers
URLConfigs ==
    {<<mode, AuthHeaders>> : mode \in ModeStrings} \cup {<<NoModeStr, CondHeaders>>}

\* the ETag and Last-Modified headers of a 200 response
Validators == {<<"", "t1">>, <<"e1", "t1">>, <<"e2", "t2">>}

Statuses == {StatusOK, StatusNotModified, StatusUnauthorized, StatusForbidden, 500}

\* what c.Do(req) yields: a transport failure (status 0), or a response
\* the bodies a 200 carries with its validators: an entity tag names one body,
\* as the acceptance test's server derives it from the content; a server
\* without entity tags serves any body
BodiesOf(v) ==
    IF v[1] = "" THEN Contents
    ELSE {b \in Contents : Len(b) = (IF v[1] = "e1" THEN 1 ELSE 2)}

Response(transport, status, etag, lm, body) ==
    [transport |-> transport, status |-> status, etag |-> etag, lm |-> lm,
     body |-> body, ctype |-> <<>>, text |-> <<>>, readerr |-> FALSE]

\* an error response: its Content-Type, its body, and whether reading the
\* body fails
ErrorResponse(status, ctype, text, readerr) ==
    [Response("ok", status, "", "", <<>>) EXCEPT
        !.ctype = ctype, !.text = text, !.readerr = readerr]

ErrorStatuses == Statuses \ {StatusOK, StatusNotModified}

Responses ==
    {Response("fail", 0, "", "", <<>>)}
    \cup {Response("ok", StatusNotModified, "", "", <<>>)}
    \cup {ErrorResponse(st, TextPlainUTF8, NotAuthorizedText, re) :
            st \in ErrorStatuses, re \in BOOLEAN}
    \cup UNION {{Response("ok", StatusOK, v[1], v[2], b) : b \in BodiesOf(v)} :
                    v \in Validators}

\* variant: the cached Last-Modified preferred to the cached ETag
makeRequest_LastModifiedFirst(method, d) ==
    LET custom == d.headers
        withCond ==
            IF d.last_modified # ""
            THEN [custom EXCEPT !["If-Modified-Since"] = d.last_modified]
            ELSE IF d.etag # ""
            THEN [custom EXCEPT !["If-None-Match"] = d.etag]
            ELSE custom
    IN [method |-> method, headers |-> withCond]

makeRequest(method, d) ==
    LET custom == d.headers
        withCond ==
            IF d.etag # ""
            THEN [custom EXCEPT !["If-None-Match"] = d.etag]
            ELSE IF d.last_modified # ""
            THEN [custom EXCEPT !["If-Modified-Since"] = d.last_modified]
            ELSE custom
    IN [method |-> method, headers |-> withCond]

getFileMode(d) ==
    IF d.file_mode # NoModeStr
    THEN IF ParseUint8(d.file_mode).err # ""
         THEN [err |-> "InvalidMode", mode |-> 0]
         ELSE [err |-> "", mode |-> ParseUint8(d.file_mode).val]
    ELSE [err |-> "", mode |-> DefaultURLMode]

writeResponseBody(files, body, filename, mode, flt) ==
    LET m == IF mode = 0 THEN FallbackBodyMode ELSE mode
    IN
    IF flt.kind = "open_dest"
    THEN [fs |-> files, log |-> <<"open_dest">>, err |-> "IOError"]
    ELSE StreamInto(OpenTrunc(files, filename, m), filename, body, flt,
                    <<"open_dest">>)

\* variant: the validators taken from the response headers before the status is
\* looked at, so that a 304 (which carries none here) clears them
ensureDownloadFile_SetsBeforeSwitch(files, d, mode, resp, flt, log0) ==
    LET log1 == log0 \o <<"http_get">>
        d1 == [d EXCEPT !.etag = resp.etag, !.last_modified = resp.lm]
    IN
    IF resp.transport = "fail"
    THEN Ret(files, d, log1, "panic")
    ELSE IF resp.status = StatusNotModified
    THEN Ret(files, d1, log1, "")
    ELSE IF resp.status = StatusOK
    THEN
        LET w == writeResponseBody(files, resp.body, Dst, mode, flt)
        IN
        IF w.err # ""
        THEN Ret(w.fs, d1, log1 \o w.log, w.err)
        ELSE Ret(w.fs, [d1 EXCEPT !.content_sha256 = Sha256Hex(resp.body)],
                 log1 \o w.log, "")
    ELSE responseError(files, d, log1, resp)

\* variant: a 200 that stores the fingerprint and Last-Modified but not the ETag
ensureDownloadFile_KeepsETag(files, d, mode, resp, flt, log0) ==
    LET log1 == log0 \o <<"http_get">>
    IN
    IF resp.transport = "fail"
    THEN Ret(files, d, log1, "panic")
    ELSE IF resp.status = StatusNotModified
    THEN Ret(files, d, log1, "")
    ELSE IF resp.status = StatusOK
    THEN
        LET d1 == [d EXCEPT !.last_modified = resp.lm]
            w == writeResponseBody(files, resp.body, Dst, mode, flt)
        IN
        IF w.err # ""
        THEN Ret(w.fs, d1, log1 \o w.log, w.err)
        ELSE Ret(w.fs, [d1 EXCEPT !.content_sha256 = Sha256Hex(resp.body)],
                 log1 \o w.log, "")
    ELSE responseError(files, d, log1, resp)

\* ensureDownloadFile; "panic" is the nil dereference of resp at line 187
\* after the transport error of line 181 was built and dropped
ensureDownloadFile(files, d, mode, resp, flt, log0) ==
    LET log1 == log0 \o <<"http_get">>
    IN
    IF resp.transport = "fail"
    THEN Ret(files, d, log1, "panic")
    ELSE IF resp.status = StatusNotModified
    THEN Ret(files, d, log1, "")
    ELSE IF resp.status = StatusOK
    THEN
        LET d1 == [d EXCEPT !.etag = resp.etag, !.last_modified = resp.lm]
            w == writeResponseBody(files, resp.body, Dst, mode, flt)
        IN
        IF w.err # ""
        THEN Ret(w.fs, d1, log1 \o w.log, w.err)
        ELSE Ret(w.fs, [d1 EXCEPT !.content_sha256 = Sha256Hex(resp.body)],
                 log1 \o w.log, "")
    ELSE responseError(files, d, log1, resp)

\* variant: a Read that stats the backing file and never contacts the server
resourceURLRead_StatOnly(files, d, resp, flt) ==
    LET f == idToFile(d.id)
    IN
    IF f.err # ""
    THEN Ret(files, d, <<>>, f.err)
    ELSE
    LET log1 == <<"stat_" \o Name(f.file)>>
    IN
    IF ~files[f.file].exists
    THEN Ret(files, [d EXCEPT !.id = NoId], log1, "")
    ELSE IF flt.kind = "stat_dest"
    THEN Ret(files, d, log1, "IOError")
    ELSE Ret(files, d, log1, "")

resourceURLRead(files, d, resp, flt) ==
    LET f == idToFile(d.id)
    IN
    IF f.err # ""
    THEN Ret(files, d, <<>>, f.err)
    ELSE
    LET log1 == <<"stat_" \o Name(f.file)>>
    IN
    IF ~files[f.file].exists
    THEN Ret(files, [d EXCEPT !.id = NoId], log1, "")
    ELSE IF flt.kind = "stat_dest"
    THEN Ret(files, d, log1, "IOError")
    ELSE IF getFileMode(d).err # ""
    THEN Ret(files, d, log1, getFileMode(d).err)
    ELSE ensureDownloadFile(files, d, getFileMode(d).mode, resp, flt, log1)

resourceURLCreate(files, d, resp, flt) ==
    IF getFileMode(d).err # ""
    THEN Ret(files, d, <<>>, getFileMode(d).err)
    ELSE
    LET r == ensureDownloadFile(files, d, getFileMode(d).mode, resp, flt, <<>>)
    IN
    IF r.res # "" THEN r
    ELSE Ret(r.fs, [r.data EXCEPT !.id = fileToID(DestPath)], r.log, "")

----------------------------------------------------------------------------
(* The lifecycle driver's calls of the handlers *)

\* the ResourceData of a Create: no prior state, only the configuration
FreshData(mode, hdrs) ==
    [id |-> NoId, content_sha256 |-> NoHash, etag |-> "", last_modified |-> "",
     file_mode |-> mode, headers |-> hdrs]

NoResponse == Response("none", 0, "", "", <<>>)

\* the diagnostics a handler returns: those of diagResponseError, or the one
\* of diag.FromErr
DiagsOf(r) ==
    IF "diags" \in DOMAIN r THEN r.diags
    ELSE IF r.res \in {"", "panic"} THEN <<>>
    ELSE <<Diagnostic("Error", <<>>, <<>>)>>

Severities(diags) == [i \in 1..Len(diags) |-> diags[i].severity]

InSeq(x, log) == \E i \in 1..Len(log) : log[i] = x

\* the record of a handler call: its result, its I/O in order, and the
\* response when the call reached c.Do (the body when it was read in full)
Called(op, r, resp) ==
    [op |-> op, res |-> r.res, log |-> r.log,
     diags |-> Severities(DiagsOf(r)),
     resp |-> IF InSeq("http_get", r.log)
              THEN [resp EXCEPT !.body = IF r.res = "" THEN resp.body ELSE <<>>,
                                !.ctype = <<>>, !.text = <<>>, !.readerr = FALSE]
              ELSE NoResponse]

Idle == [stage |-> "idle", diff |-> "none"]

\* no function applied yet
NotApplied == [applied |-> FALSE]

Init ==
    /\ kind \in {"file", "url"}
    /\ fs = [p \in {Src, Dst} |->
                IF p = Src /\ kind = "file" THEN File(<<1>>, 420) ELSE NoFile]
    /\ \/ kind = "file" /\ data = FreshData(NoModeStr, NoHeaders)
       \/ kind = "url" /\ \E cfg \in URLConfigs : data = FreshData(cfg[1], cfg[2])
    /\ plan = Idle
    /\ last = [op |-> "init", res |-> "", log |-> <<>>, diags |-> <<>>,
               resp |-> NoResponse]
    /\ cpath = 0
    /\ inodes = <<>>
    /\ writers = <<>>
    /\ arg = <<>>
    /\ out = NotApplied

ConcUnchanged == UNCHANGED <<cpath, inodes, writers>>

PureUnchanged == UNCHANGED <<arg, out>>

FileCreate ==
    /\ kind = "file"
    /\ \E mode \in ModeStrings, flt \in CopyFaults(fs) :
        LET d0 == FreshData(mode, NoHeaders)
            r == resourceFileCreate(fs, d0, flt)
        IN /\ fs' = r.fs
           /\ data' = r.data
           /\ last' = Called("FileCreate", r, NoResponse)
           /\ plan' = IF r.res = "" THEN [stage |-> "synced", diff |-> "none"] ELSE Idle
    /\ UNCHANGED kind
    /\ ConcUnchanged
    /\ PureUnchanged

FileRead ==
    /\ kind = "file"
    /\ data.id # NoId
    /\ \E flt \in ReadFaults :
        LET r == resourceFileRead(fs, data, <<>>, flt)
        IN /\ fs' = r.fs
           /\ data' = r.data
           /\ last' = Called("FileRead", r, NoResponse)
           /\ plan' = IF r.res = "" /\ plan.stage = "drifted" /\ r.data.id # NoId
                      THEN [stage |-> "refreshed", diff |-> "none"]
                      ELSE Idle
    /\ UNCHANGED kind
    /\ ConcUnchanged
    /\ PureUnchanged

CustomizeDiff ==
    /\ kind = "file"
    /\ \E flt \in ReadFaults :
        LET r == customizeDiffFile(fs, flt)
        IN /\ last' = [op |-> "CustomizeDiff", res |-> r.res, log |-> r.log,
                       diags |-> IF r.res = "" THEN <<>> ELSE <<"Error">>,
                       resp |-> NoResponse]
           /\ plan' = [stage |-> IF plan.stage = "refreshed" THEN "planned" ELSE "idle",
                       diff |-> r.plan]
    /\ UNCHANGED <<kind, fs, data>>
    /\ ConcUnchanged
    /\ PureUnchanged

FileUpdate ==
    /\ kind = "file"
    /\ data.id # NoId
    /\ \E mode \in ModeStrings, flt \in CopyFaults(fs) :
        LET d0 == [data EXCEPT !.file_mode = mode]
            r == resourceFileUpdate(fs, d0, flt)
        IN /\ fs' = r.fs
           /\ data' = r.data
           /\ last' = Called("FileUpdate", r, NoResponse)
           /\ plan' = IF r.res # "" THEN Idle
                      ELSE IF plan.stage = "planned" /\ plan.diff = "recompute"
                      THEN [stage |-> "applied", diff |-> "none"]
                      ELSE [stage |-> "synced", diff |-> "none"]
    /\ UNCHANGED kind
    /\ ConcUnchanged
    /\ PureUnchanged

Delete ==
    /\ data.id # NoId
    /\ \E flt \in DeleteFaults :
        LET r == resourceDelete(fs, data, flt)
        IN /\ fs' = r.fs
           /\ data' = r.data
           /\ last' = Called("Delete", r, NoResponse)
    /\ plan' = Idle
    /\ UNCHANGED kind
    /\ ConcUnchanged
    /\ PureUnchanged

URLCreate ==
    /\ kind = "url"
    /\ \E resp \in Responses :
       \E flt \in FetchFaults(resp) :
        LET d0 == FreshData(data.file_mode, data.headers)
            r == resourceURLCreate(fs, d0, resp, flt)
        IN /\ fs' = r.fs
           /\ data' = r.data
           /\ last' = Called("URLCreate", r, resp)
    /\ UNCHANGED <<kind, plan>>
    /\ ConcUnchanged
    /\ PureUnchanged

URLRead ==
    /\ kind = "url"
    /\ data.id # NoId
    /\ \E resp \in Responses :
       \E flt \in ReadFetchFaults(resp) :
        LET r == resourceURLRead(fs, data, resp, flt)
        IN /\ fs' = r.fs
           /\ data' = r.data
           /\ last' = Called("URLRead", r, resp)
    /\ UNCHANGED <<kind, plan>>
    /\ ConcUnchanged
    /\ PureUnchanged

\* Outside the provider: another program writes or removes a file
External(op) ==
    [op |-> op, res |-> "", log |-> <<>>, diags |-> <<>>, resp |-> NoResponse]

WriteSource ==
    /\ kind = "file"
    /\ \E c \in Contents, m \in SourceModes :
        fs' = [fs EXCEPT ![Src] = File(c, m)]
    /\ last' = External("WriteSource")
    /\ plan' = Idle
    /\ UNCHANGED <<kind, data>>
    /\ ConcUnchanged
    /\ PureUnchanged

RemoveSource ==
    /\ kind = "file"
    /\ fs[Src].exists
    /\ fs' = [fs EXCEPT ![Src] = NoFile]
    /\ last' = External("RemoveSource")
    /\ plan' = Idle
    /\ UNCHANGED <<kind, data>>
    /\ ConcUnchanged
    /\ PureUnchanged

WriteDest ==
    /\ \E c \in Contents, m \in DestModes :
        /\ fs' = [fs EXCEPT ![Dst] = File(c, m)]
        /\ plan' = IF /\ plan.stage \in {"synced", "applied"}
                      /\ fs[Dst].exists
                      /\ c # fs[Dst].content
                   THEN [stage |-> "drifted", diff |-> "none"]
                   ELSE Idle
    /\ last' = External("WriteDest")
    /\ UNCHANGED <<kind, data>>
    /\ ConcUnchanged
    /\ PureUnchanged

RemoveDest ==
    /\ fs[Dst].exists
    /\ fs' = [fs EXCEPT ![Dst] = NoFile]
    /\ last' = External("RemoveDest")
    /\ plan' = Idle
    /\ UNCHANGED <<kind, data>>
    /\ ConcUnchanged
    /\ PureUnchanged

Next ==
    \/ FileCreate
    \/ FileRead
    \/ CustomizeDiff
    \/ FileUpdate
    \/ Delete
    \/ URLCreate
    \/ URLRead
    \/ WriteSource
    \/ RemoveSource
    \/ WriteDest
    \/ RemoveDest

Spec == Init /\ [][Next]_vars

----------------------------------------------------------------------------
(* Properties of the sync engine *)

SyncOps == {"FileCreate", "FileRead", "FileUpdate", "URLCreate", "URLRead"}

FetchOps == {"URLCreate", "URLRead"}

\* C1: after any successful Create, Read or Update that leaves the resource in
\* place, content_sha256 is the SHA-256 of the destination file's current bytes.
C1_FingerprintCorrect ==
    (last.op \in SyncOps /\ last.res = "" /\ data.id # NoId /\ fs[Dst].exists)
        => data.content_sha256 = Sha256Hex(fs[Dst].content)

\* C2: a Create that directly follows a successful Create (source and
\* destination untouched in between) yields the same content_sha256 and writes
\* no byte of the destination.
C2_SecondCreateSameFingerprint ==
    [][(/\ last.op = "FileCreate" /\ last.res = ""
        /\ last'.op = "FileCreate" /\ last'.res = "")
          => (/\ data'.content_sha256 = data.content_sha256
              /\ ~InSeq("write_dest", last'.log)
              /\ fs'[Dst].content = fs[Dst].content)]_vars

\* C3: once the destination's bytes were changed from outside after a successful
\* sync, the Read and drift check that follow mark content_sha256 for
\* recomputation, and the Update that follows them, when it succeeds, leaves the
\* destination equal to the source and content_sha256 equal to the source's digest.
C3_DriftRestored ==
    /\ plan.stage = "planned" => plan.diff = "recompute"
    /\ plan.stage = "applied" =>
        /\ fs[Src].exists /\ fs[Dst].exists
        /\ fs[Dst].content = fs[Src].content
        /\ data.content_sha256 = Sha256Hex(fs[Src].content)

C3_Witness ==
    /\ plan.stage = "applied"
    /\ last.op = "FileUpdate"
    /\ InSeq("write_dest", last.log)
    /\ fs[Dst].content # <<>>

\* C4 as stated: a Read of a URL resource sends no request to the server.
C4_ReadNoNetwork ==
    last.op = "URLRead" => ~InSeq("http_get", last.log)

\* C4 as amended: a Read of a URL resource first stats the backing file; when the
\* file is absent it clears the identity, succeeds and sends no request; when the
\* file is present it sends the GET of ensureDownloadFile, unless the stat or the
\* parse of file_mode failed first.
C4_ReadFetchesWhenPresent ==
    [][last'.op = "URLRead" =>
        /\ last'.log # <<>> /\ last'.log[1] = "stat_dest"
        /\ ~fs[Dst].exists =>
            /\ data'.id = NoId /\ last'.res = ""
            /\ ~InSeq("http_get", last'.log)
            /\ fs' = fs
        /\ fs[Dst].exists =>
            \/ InSeq("http_get", last'.log)
            \/ last'.res \in {"IOError", "InvalidMode"} /\ last'.log = <<"stat_dest">>]_vars

C4_Witness ==
    /\ last.op = "URLRead"
    /\ InSeq("http_get", last.log)
    /\ last.resp.status = StatusOK
    /\ last.res = ""

\* C5: a request that fails at the transport level ends the fetch with an error
\* diagnostic returned to the caller.
C5_TransportErrorReturned ==
    (last.op \in FetchOps /\ last.resp.transport = "fail")
        => last.res \notin {"", "panic"}

\* C6: a 304 answered to a request that carries the cached etag succeeds and
\* leaves the destination file, content_sha256, etag and last_modified as they
\* were, and writes no body.
C6_NotModifiedLeavesAll ==
    [][(/\ last'.op = "URLRead"
        /\ last'.resp.status = StatusNotModified
        /\ data.etag # ""
        /\ makeRequest("GET", data).headers["If-None-Match"] = data.etag)
          => (/\ last'.res = ""
              /\ fs' = fs
              /\ data' = data
              /\ ~InSeq("open_dest", last'.log)
              /\ ~InSeq("write_dest", last'.log))]_vars

C6_Witness ==
    /\ last.op = "URLRead"
    /\ last.resp.status = StatusNotModified
    /\ data.etag = "e1"
    /\ fs[Dst].exists

\* C7: a 200 that is written out in full leaves the response body in the
\* destination, content_sha256 equal to the SHA-256 of the bytes written, and
\* etag and last_modified equal to the response's ETag and Last-Modified.
C7_ChangeDetected ==
    (last.op \in FetchOps /\ last.resp.status = StatusOK /\ last.res = "")
        => /\ fs[Dst].exists
           /\ fs[Dst].content = last.resp.body
           /\ InSeq("write_dest", last.log)
           /\ data.content_sha256 = Sha256Hex(fs[Dst].content)
           /\ data.etag = last.resp.etag
           /\ data.last_modified = last.resp.lm

C7_Witness ==
    /\ last.op = "URLRead"
    /\ last.resp.status = StatusOK
    /\ last.res = ""
    /\ data.etag = "e2"
    /\ fs[Dst].content = <<1, 1>>

\* C8: an I/O error returned after the destination was opened for writing leaves
\* no file at the destination path.
C8_NoPartialFileOnError ==
    (last.res = "IOError" /\ InSeq("write_dest", last.log))
        => ~fs[Dst].exists

ReadOnlyEvents == {"hash_source", "hash_dest", "stat_dest", "stat_source"}

\* C10 as stated: an invalid file_mode is reported before any I/O.
C10_InvalidModeBeforeIO ==
    last.res = "InvalidMode" => last.log = <<>>

\* C10 as amended: an invalid file_mode is reported before any file is created,
\* truncated, written, chmod-ed or removed and before any request is sent; only
\* hashes and stats of the source and the destination may come first, and a
\* Create of a URL resource reports it before any I/O at all.
C10_InvalidModeBeforeWrites ==
    [][last'.res = "InvalidMode" =>
        /\ fs' = fs
        /\ \A i \in 1..Len(last'.log) : last'.log[i] \in ReadOnlyEvents
        /\ last'.op = "URLCreate" => last'.log = <<>>]_vars

C10_Witness ==
    /\ last.res = "InvalidMode"
    /\ last.op = "FileUpdate"
    /\ last.log = <<"hash_source", "hash_dest", "stat_dest">>

\* C13: a Delete of a resource whose backing file is absent returns no error and
\* changes nothing; a Delete that succeeds leaves no backing file, so that the
\* Delete that follows it succeeds too.
C13_IdempotentDelete ==
    [][last'.op = "Delete" =>
        /\ ~fs[Dst].exists => (last'.res = "" /\ fs' = fs /\ data' = data)
        /\ last'.res = "" => (~fs'[Dst].exists /\ fs'[Src] = fs[Src])
        /\ (last.op = "Delete" /\ last.res = "") => last'.res = ""]_vars

C13_Witness ==
    /\ last.op = "Delete"
    /\ last.res = ""
    /\ last.log = <<"stat_dest">>
    /\ ~fs[Dst].exists
    /\ data.id # NoId

\* the desired mode of a valid file_mode string
ExplicitMode(d) == ParseUint8(d.file_mode).val

\* C15: whenever file_mode is a valid octal string, a destination created by a
\* copy or a fetch has exactly that mode, a file_mode that parses to 0 included.
C15_ExplicitModeHonoured ==
    [][(/\ last'.op \in {"FileCreate", "FileUpdate", "URLCreate"}
        /\ last'.res = ""
        /\ ~fs[Dst].exists /\ fs'[Dst].exists
        /\ data'.file_mode # NoModeStr)
          => fs'[Dst].mode = ExplicitMode(data')]_vars

\* C17: a Create that fails leaves the identity empty; a Create that succeeds
\* sets it to the file:// encoding of the absolute destination path.
C17_IdentityOnlyOnSuccess ==
    last.op \in {"FileCreate", "URLCreate"} =>
        /\ last.res # "" => data.id = NoId
        /\ last.res = "" =>
            /\ data.id = fileToID(DestPath)
            /\ idToFile(data.id) = [err |-> "", file |-> Dst]

C17_Witness ==
    /\ last.op = "FileCreate"
    /\ last.res = "IOError"
    /\ InSeq("write_dest", last.log)
    /\ data.id = NoId

\* the mode ensureFileMode aims at: file_mode, else the source's mode
DesiredMode(d, files) ==
    IF d.file_mode # NoModeStr THEN ExplicitMode(d) ELSE files[Src].mode

SameFingerprint(files) ==
    /\ files[Src].exists /\ files[Dst].exists
    /\ files[Src].content = files[Dst].content

\* C18: when ensure-copy finds the fingerprints equal it writes no byte of the
\* destination; it chmods the destination exactly when the desired mode
\* (file_mode, else the source's mode) differs from the destination's, so that
\* on success the destination has the desired mode; a failed stat of the
\* destination, or of the source when file_mode is absent, is an error.
C18_PermissionReconciliation ==
    [][(last'.op \in {"FileCreate", "FileUpdate"} /\ SameFingerprint(fs)) =>
        /\ fs'[Dst].content = fs[Dst].content
        /\ fs'[Src] = fs[Src]
        /\ ~InSeq("open_dest", last'.log) /\ ~InSeq("write_dest", last'.log)
        /\ InSeq("chmod_dest", last'.log) =>
            DesiredMode(data', fs) # fs[Dst].mode
        /\ last'.res = "" =>
            /\ fs'[Dst].mode = DesiredMode(data', fs)
            /\ InSeq("chmod_dest", last'.log) <=>
                   DesiredMode(data', fs) # fs[Dst].mode
        /\ ~InSeq("chmod_dest", last'.log) => fs'[Dst].mode = fs[Dst].mode
        /\ ensureCopyFile(fs, data', Fault("stat_dest")).res = "IOError"
        /\ data'.file_mode = NoModeStr =>
            ensureCopyFile(fs, data', Fault("stat_source")).res = "IOError"]_vars

C18_Witness ==
    /\ last.op = "FileUpdate"
    /\ last.res = ""
    /\ InSeq("chmod_dest", last.log)
    /\ ~InSeq("write_dest", last.log)
    /\ data.file_mode = <<6, 0, 0>>
    /\ fs[Dst].mode = 384

\* C16 as stated: the drift check fails whenever the source is missing.
C16_DriftCheckFailsWithoutSource ==
    (last.op = "CustomizeDiff" /\ ~fs[Src].exists) => last.res # ""

\* C16 as amended: the drift check fingerprints the destination first; when the
\* destination is absent it marks content_sha256 for recomputation and returns
\* no error without looking at the source; when the destination exists,
\* readable or not, a missing source is an error.
C16_DriftCheckDestinationFirst ==
    (last.op = "CustomizeDiff" /\ ~fs[Src].exists) =>
        /\ last.log[1] = "hash_dest"
        /\ ~fs[Dst].exists =>
            /\ last.res = "" /\ plan.diff = "recompute"
            /\ last.log = <<"hash_dest">>
        /\ fs[Dst].exists =>
            /\ last.res = "NotFound" /\ plan.diff = "error"
            /\ last.log = <<"hash_dest", "hash_source">>

C16_Witness ==
    /\ last.op = "CustomizeDiff"
    /\ ~fs[Src].exists /\ ~fs[Dst].exists
    /\ last.res = ""
    /\ plan.diff = "recompute"

\* C19: a Read of a local-file resource leaves every file as it was; when the
\* backing file is absent it clears the identity and returns no error; when the
\* file is there and the Read returns no error, content_sha256 is the digest of
\* the file's bytes and the identity is kept.
C19_ReadOnlyRead ==
    [][last'.op = "FileRead" =>
        /\ fs' = fs
        /\ last'.log = <<"hash_dest">>
        /\ ~fs[Dst].exists => (last'.res = "" /\ data'.id = NoId)
        /\ fs[Dst].exists =>
            /\ data'.id = data.id
            /\ last'.res = "" =>
                data' = [data EXCEPT !.content_sha256 = Sha256Hex(fs[Dst].content)]
            /\ last'.res # "" => data' = data]_vars

C19_Witness ==
    /\ last.op = "FileRead"
    /\ last.res = ""
    /\ fs[Dst].exists
    /\ fs[Src].exists /\ fs[Src].content # fs[Dst].content
    /\ data.content_sha256 = Sha256Hex(fs[Dst].content)

\* the ResourceData a fetch handler builds its request from: the state for a
\* Read, the bare configuration for a Create
Handled(op) ==
    IF op = "URLCreate" THEN FreshData(data.file_mode, data.headers) ELSE data

\* the fetch step sent a request
Requested == last'.op \in FetchOps /\ InSeq("http_get", last'.log)

\* C12 as stated: a request carries If-None-Match with the cached etag whenever
\* one is cached, If-Modified-Since with the cached last-modified only when no
\* etag is cached, and neither header when nothing is cached.
C12_NoConditionalWithoutCache ==
    [][Requested =>
        LET d == Handled(last'.op)
            h == makeRequest("GET", d).headers
        IN /\ d.etag # "" => h["If-None-Match"] = d.etag
           /\ (d.last_modified # "" /\ h["If-Modified-Since"] = d.last_modified)
                => d.etag = ""
           /\ (d.etag = "" /\ d.last_modified = "")
                => (h["If-None-Match"] = "" /\ h["If-Modified-Since"] = "")]_vars

\* C12 as amended: a request carries the custom headers, with If-None-Match
\* replaced by the cached etag when one is cached, and otherwise with
\* If-Modified-Since replaced by the cached last-modified when one is cached;
\* at most one header comes from the cache, the other conditional header is the
\* custom one if the configuration has it, and with nothing cached the request
\* carries the custom headers alone.
C12_CacheOverridesOneHeader ==
    [][Requested =>
        LET d == Handled(last'.op)
            h == makeRequest("GET", d).headers
        IN /\ h["Authorization"] = d.headers["Authorization"]
           /\ d.etag # "" =>
                /\ h["If-None-Match"] = d.etag
                /\ h["If-Modified-Since"] = d.headers["If-Modified-Since"]
           /\ (d.etag = "" /\ d.last_modified # "") =>
                /\ h["If-Modified-Since"] = d.last_modified
                /\ h["If-None-Match"] = d.headers["If-None-Match"]
           /\ (d.etag = "" /\ d.last_modified = "") => h = d.headers]_vars

C12_Witness ==
    /\ last.op = "URLRead"
    /\ InSeq("http_get", last.log)
    /\ last.resp.status = StatusNotModified
    /\ data.headers = CondHeaders
    /\ data.etag = "e1" /\ data.last_modified = "t1"

\* how many times an event is in the I/O log
Count(x, log) == Cardinality({i \in 1..Len(log) : log[i] = x})

\* C20: a response of any status other than 200 leaves the destination file,
\* content_sha256, etag and last_modified as they were before the fetch; a 304
\* is a success, and any other such status returns exactly one error
\* diagnostic, after one request, with at most a warning about the unreadable
\* error body before it.
C20_NonOKLeavesAll ==
    [][(/\ Requested
        /\ last'.resp.transport = "ok"
        /\ last'.resp.status # StatusOK) =>
        LET d == Handled(last'.op)
        IN /\ fs' = fs
           /\ data'.content_sha256 = d.content_sha256
           /\ data'.etag = d.etag
           /\ data'.last_modified = d.last_modified
           /\ Count("http_get", last'.log) = 1
           /\ last'.resp.status = StatusNotModified =>
                (last'.res = "" /\ last'.diags = <<>>)
           /\ last'.resp.status # StatusNotModified =>
                /\ last'.res \in {"AuthRequired", "AuthRejected", "UnexpectedResponse"}
                /\ Count("Error", last'.diags) = 1
                /\ last'.diags \in {<<"Error">>, <<"Warning", "Error">>}
                /\ last'.op = "URLCreate" => data'.id = NoId]_vars

C20_Witness ==
    /\ last.op = "URLRead"
    /\ last.resp.status = StatusForbidden
    /\ last.diags = <<"Warning", "Error">>
    /\ fs[Dst].exists
    /\ data.etag = "e1"

\* C21: after a successful Create of a URL resource (identity set, no error)
\* the backing file exists at the destination path, whatever status the server
\* returned, a 304 answered to the first request included.
C21_CreatedFileExists ==
    (last.op = "URLCreate" /\ last.res = "" /\ data.id # NoId)
        => fs[Dst].exists

\* C22: etag and last_modified change only in a fetch that also replaces the
\* destination's bytes and content_sha256 with those of the response and
\* succeeds; when writing the body of a 200 fails they keep their values.
C22_ValidatorsFollowContent ==
    [][(/\ last'.op \in FetchOps
        /\ \/ data'.etag # Handled(last'.op).etag
           \/ data'.last_modified # Handled(last'.op).last_modified)
          => /\ last'.res = ""
             /\ last'.resp.status = StatusOK
             /\ InSeq("write_dest", last'.log)
             /\ fs'[Dst].exists
             /\ fs'[Dst].content = last'.resp.body
             /\ data'.content_sha256 = Sha256Hex(last'.resp.body)]_vars

\* C23: after a successful Create or Update of a local-file resource the
\* destination's mode is the desired mode (file_mode, else the source's mode),
\* also when the destination was there before with other bytes and another
\* mode and the copy overwrote it. (A desired mode of 0 is the case of C15.)
C23_ModeAfterSync ==
    [][(/\ last'.op \in {"FileCreate", "FileUpdate"}
        /\ last'.res = ""
        /\ DesiredMode(data', fs') # 0)
          => /\ fs'[Dst].exists
             /\ fs'[Dst].mode = DesiredMode(data', fs')]_vars

----------------------------------------------------------------------------
(* Two resource instances writing one destination path at the same time.    *)
(* Each writer runs the body of copyFile (writeResponseBody is the same     *)
(* code): OpenFile with O_CREATE|O_TRUNC, io.Copy one chunk per step through *)
(* its own file offset, then Close; a failed io.Copy closes and removes the *)
(* path.  The path names an inode; a removed inode stays writable through   *)
(* the descriptors that are open on it.                                     *)

\* the longest content a writer copies, in chunks
MaxChunks == 2

Writers == {1, 2}

\* the inode of a destination that exists before either writer opens it
OldInode == Cardinality(Writers) + 1

\* writer w copies n chunks, each the byte w
ChunksOf(w, n) == [i \in 1..n |-> w]

\* write(2) of one byte at an offset: past the end the gap reads as zeros
RECURSIVE Zeros(_)
Zeros(n) == IF n <= 0 THEN <<>> ELSE <<0>> \o Zeros(n - 1)

WriteAt(bytes, off, b) ==
    IF off < Len(bytes)
    THEN [bytes EXCEPT ![off + 1] = b]
    ELSE bytes \o Zeros(off - Len(bytes)) \o <<b>>

\* variant: the destination opened without O_TRUNC
ConcOpen_NoTrunc(path, inos, w) ==
    IF path = 0
    THEN [path |-> w, inodes |-> [inos EXCEPT ![w] = <<>>], ino |-> w]
    ELSE [path |-> path, inodes |-> inos, ino |-> path]

\* os.OpenFile(destination, O_CREATE|O_TRUNC|O_WRONLY, mode) by writer w
ConcOpen(path, inos, w) ==
    IF path = 0
    THEN [path |-> w, inodes |-> [inos EXCEPT ![w] = <<>>], ino |-> w]
    ELSE [path |-> path, inodes |-> [inos EXCEPT ![path] = <<>>], ino |-> path]

InitConc ==
    /\ kind = "file"
    /\ fs = [p \in {Src, Dst} |-> NoFile]
    /\ data = FreshData(NoModeStr, NoHeaders)
    /\ plan = Idle
    /\ last = External("init")
    /\ arg = <<>>
    /\ out = NotApplied
    /\ cpath \in {0, OldInode}
    /\ inodes = [i \in Writers \cup {OldInode} |->
                    IF i = OldInode /\ cpath = OldInode THEN <<3, 3, 3>> ELSE <<>>]
    /\ \E n1 \in 1..MaxChunks, n2 \in 1..MaxChunks :
        writers = [w \in Writers |->
            [pc |-> "start", content |-> ChunksOf(w, IF w = 1 THEN n1 ELSE n2),
             ino |-> 0, off |-> 0, alone |-> TRUE, rank |-> 0]]

SeqUnchanged == UNCHANGED <<kind, fs, data, plan, last, arg, out>>

Copying(w) == writers[w].pc = "copy"

\* line 503 (279): open, create or truncate
COpen(w) ==
    /\ writers[w].pc = "start"
    /\ LET o == ConcOpen(cpath, inodes, w)
           busy == \E v \in Writers \ {w} : Copying(v)
           before == Cardinality({v \in Writers \ {w} : writers[v].pc # "start"})
       IN /\ cpath' = o.path
          /\ inodes' = o.inodes
          /\ writers' = [v \in Writers |->
                IF v = w
                THEN [writers[w] EXCEPT !.pc = "copy", !.ino = o.ino, !.off = 0,
                                        !.alone = ~busy, !.rank = before]
                ELSE IF Copying(v) THEN [writers[v] EXCEPT !.alone = FALSE]
                ELSE writers[v]]
    /\ SeqUnchanged

\* line 513 (289): io.Copy writes the next chunk at the writer's own offset
CWrite(w) ==
    /\ Copying(w)
    /\ writers[w].off < Len(writers[w].content)
    /\ inodes' = [inodes EXCEPT ![writers[w].ino] =
                    WriteAt(@, writers[w].off, writers[w].content[writers[w].off + 1])]
    /\ writers' = [writers EXCEPT ![w].off = @ + 1]
    /\ UNCHANGED cpath
    /\ SeqUnchanged

\* lines 513-517 (289-293): io.Copy fails; Close, then Remove of the path
CCopyFail(w) ==
    /\ Copying(w)
    /\ cpath' = 0
    /\ writers' = [writers EXCEPT ![w].pc = "failed"]
    /\ UNCHANGED inodes
    /\ SeqUnchanged

\* lines 507-512, 519 (283-288, 295): io.Copy returned nil; the deferred Close
CClose(w) ==
    /\ Copying(w)
    /\ writers[w].off = Len(writers[w].content)
    /\ \E closed \in {"done", "failed"} :
        writers' = [writers EXCEPT ![w].pc = closed]
    /\ UNCHANGED <<cpath, inodes>>
    /\ SeqUnchanged

NextConc ==
    \E w \in Writers :
        \/ COpen(w)
        \/ CWrite(w)
        \/ CCopyFail(w)
        \/ CClose(w)

SpecConc == InitConc /\ [][NextConc]_vars

Finished(w) == writers[w].pc \in {"done", "failed"}

\* C9 as stated: once both writers have written and closed, whatever the
\* interleaving, the destination holds the complete bytes of one of them.
C9_NoMixture ==
    (\A w \in Writers : writers[w].pc = "done")
        => (cpath # 0 /\ \E w \in Writers : inodes[cpath] = writers[w].content)

\* C9 as amended: when the two writes do not overlap (the second writer opens
\* the destination after the first has closed it) and the second writer's copy
\* and close succeed, the destination holds the complete bytes of the second
\* writer.
C9_LastWriterWinsWhenSerial ==
    \A w \in Writers :
        (/\ \A v \in Writers : Finished(v) /\ writers[v].alone
         /\ writers[w].rank = 1
         /\ writers[w].pc = "done")
            => (cpath # 0 /\ inodes[cpath] = writers[w].content)

C9_Witness ==
    /\ \A v \in Writers : writers[v].pc = "done" /\ writers[v].alone
    /\ writers[2].rank = 1
    /\ Len(writers[1].content) > Len(writers[2].content)
    /\ cpath # 0
    /\ inodes[cpath] = writers[2].content

----------------------------------------------------------------------------
(* The classification of a response, one response at a time: the switch of *)
(* ensureDownloadFile applied to a response of any status, Content-Type and *)
(* body, on a resource with no file and nothing cached.                     *)

ClassifyStatuses ==
    {StatusOK, StatusNotModified, StatusUnauthorized, StatusForbidden,
     204, 404, 500}

ClassifyResponses ==
    {ErrorResponse(st, ct, tx, re) :
        st \in ClassifyStatuses, ct \in ContentTypes, tx \in ErrorTexts,
        re \in BOOLEAN}

InitClassify ==
    /\ kind = "url"
    /\ fs = [p \in {Src, Dst} |-> NoFile]
    /\ data = FreshData(NoModeStr, NoHeaders)
    /\ plan = Idle
    /\ last = External("init")
    /\ cpath = 0
    /\ inodes = <<>>
    /\ writers = <<>>
    /\ arg \in ClassifyResponses
    /\ out = NotApplied

Classify ==
    /\ out = NotApplied
    /\ out' = [applied |-> TRUE,
               ret |-> ensureDownloadFile(fs, data, getFileMode(data).mode, arg,
                                          NoFault, <<>>)]
    /\ UNCHANGED <<kind, fs, data, plan, last, arg>>
    /\ ConcUnchanged

NextClassify == Classify

SpecClassify == InitClassify /\ [][NextClassify]_vars

\* the response was classified as an error
Classified ==
    out.applied /\ arg.status \notin {StatusOK, StatusNotModified}

\* the error diagnostic: the last one returned
ErrorDiag == out.ret.diags[Len(out.ret.diags)]

\* what the user reads: the summary, then the detail
Message(dg) == dg.summary \o <<" ">> \o dg.detail

AuthorizedWord ==
    <<"a", "u", "t", "h", "o", "r", "i", "z", "e", "d">>

AuthorizationWord ==
    <<"a", "u", "t", "h", "o", "r", "i", "z", "a", "t", "i", "o", "n">>

ForbiddenWord ==
    <<"f", "o", "r", "b", "i", "d", "d", "e", "n">>

CredentialsWord ==
    <<"c", "r", "e", "d", "e", "n", "t", "i", "a", "l", "s">>

\* the Content-Types that name plain text, XML, JSON or YAML
TextualTypes ==
    {TextPlainUTF8, TextHTML, ApplicationJSON, ApplicationLDJSON,
     ApplicationXML, ApplicationXYAML, ApplicationYAML}

\* C11 as stated: a 401 is an authorization-required error whose message
\* contains "authorized", a 403 a credentials-rejected error whose message
\* contains "forbidden" or "credentials", any other error status an
\* unexpected-response error carrying the status line; the body is the detail
\* only when the Content-Type is textual.
C11_MessageSaysAuthorized ==
    Classified =>
        /\ arg.status = StatusUnauthorized =>
            /\ out.ret.res = "AuthRequired"
            /\ Contains(Message(ErrorDiag), AuthorizedWord)
        /\ arg.status = StatusForbidden =>
            /\ out.ret.res = "AuthRejected"
            /\ \/ Contains(Message(ErrorDiag), ForbiddenWord)
               \/ Contains(Message(ErrorDiag), CredentialsWord)
        /\ arg.status \notin {StatusUnauthorized, StatusForbidden} =>
            /\ out.ret.res = "UnexpectedResponse"
            /\ Contains(ErrorDiag.summary, StatusLine(arg.status))
        /\ ErrorDiag.detail # <<>> => arg.ctype \in TextualTypes

\* C11 as amended: a 401 is an authorization-required error whose summary
\* says that the url "requires authorization": it contains "authorization" and
\* not "authorized", and the message contains "authorized" only when the
\* server's own body says so and is included as detail; a 403 is a distinct
\* credentials-rejected error whose summary contains "credentials"; any other
\* error status is an unexpected-response error whose summary carries the
\* status line; the detail is the body when the Content-Type is textual and
\* the body can be read, and empty otherwise.
C11_Classification ==
    Classified =>
        LET e == ErrorDiag
            included == arg.ctype \in TextualTypes /\ ~arg.readerr
        IN /\ e.severity = "Error"
           /\ e.detail = IF included THEN arg.text ELSE <<>>
           /\ arg.status = StatusUnauthorized =>
                /\ out.ret.res = "AuthRequired"
                /\ e.summary = Summary401
                /\ Contains(e.summary, AuthorizationWord)
                /\ ~Contains(e.summary, AuthorizedWord)
                /\ Contains(Message(e), AuthorizedWord)
                     <=> (included /\ Contains(arg.text, AuthorizedWord))
           /\ arg.status = StatusForbidden =>
                /\ out.ret.res = "AuthRejected"
                /\ e.summary = Summary403 /\ Summary403 # Summary401
                /\ Contains(e.summary, CredentialsWord)
           /\ arg.status \notin {StatusUnauthorized, StatusForbidden} =>
                /\ out.ret.res = "UnexpectedResponse"
                /\ HasPrefix(e.summary, SummaryUnexpected)
                /\ Contains(e.summary, StatusLine(arg.status))

C11_Witness ==
    /\ Classified
    /\ arg.status = StatusUnauthorized
    /\ arg.ctype = ApplicationLDJSON
    /\ arg.text = NotAuthorizedText
    /\ ErrorDiag.detail = NotAuthorizedText
    /\ out.ret.res = "AuthRequired"

----------------------------------------------------------------------------
(* The identity codec on its own *)
(* fileToID applied to a path and idToFile to what it returned, and         *)
(* idToFile applied to an identifier from anywhere.                         *)

PathChars == {"/", ".", "a", "%"}

Paths == UNION {[1..n -> PathChars] : n \in 0..MaxPath}

AbsPaths == {p \in Paths : IsAbs(p)}

\* "http://h/a"
HttpId ==
    <<"h", "t", "t", "p", ":", "/", "/", "h", "/", "a">>

\* "/a/b"
NoSchemeId ==
    <<"/", "a", "/", "b">>

\* "FILE:///a"
UpperFileId ==
    <<"F", "I", "L", "E", ":", "/", "/", "/", "a">>

\* "file:a"
OpaqueFileId ==
    <<"f", "i", "l", "e", ":", "a">>

\* "file://h/a"
HostFileId ==
    <<"f", "i", "l", "e", ":", "/", "/", "h", "/", "a">>

\* "file:///a%2Fb"
EscapedSlashId ==
    <<"f", "i", "l", "e", ":", "/", "/", "/", "a", "%", "2", "F", "b">>

\* "file:///a%"
BadEscapeId ==
    <<"f", "i", "l", "e", ":", "/", "/", "/", "a", "%">>

\* ":a"
NoProtocolId ==
    <<":", "a">>

\* "file:///a?b"
QueryFileId ==
    <<"f", "i", "l", "e", ":", "/", "/", "/", "a", "?", "b">>

\* "1a:b"
DigitFirstId ==
    <<"1", "a", ":", "b">>

\* identifiers fileToID did not write
ForeignIds ==
    {NoId, HttpId, NoSchemeId, UpperFileId, OpaqueFileId, HostFileId, EscapedSlashId, BadEscapeId, NoProtocolId, QueryFileId, DigitFirstId}

\* the identifier of every absolute path
IdOf == [p \in AbsPaths |-> fileToID(p)]

Identifiers == ForeignIds \cup {IdOf[p] : p \in AbsPaths}

CodecInputs ==
    {[fn |-> "fileToID", s |-> p] : p \in Paths}
    \cup {[fn |-> "idToFile", s |-> id] : id \in Identifiers}

InitCodec ==
    /\ kind = "file"
    /\ fs = [p \in {Src, Dst} |-> NoFile]
    /\ data = FreshData(NoModeStr, NoHeaders)
    /\ plan = Idle
    /\ last = External("init")
    /\ cpath = 0
    /\ inodes = <<>>
    /\ writers = <<>>
    /\ arg \in CodecInputs
    /\ out = NotApplied

\* a path encoded, and the identifier decoded again
Encode ==
    /\ out = NotApplied
    /\ arg.fn = "fileToID"
    /\ out' = [applied |-> TRUE, id |-> fileToID(arg.s),
               file |-> idToFile(fileToID(arg.s))]
    /\ UNCHANGED <<kind, fs, data, plan, last, arg>>
    /\ ConcUnchanged

\* an identifier decoded
Decode ==
    /\ out = NotApplied
    /\ arg.fn = "idToFile"
    /\ out' = [applied |-> TRUE, file |-> idToFile(arg.s)]
    /\ UNCHANGED <<kind, fs, data, plan, last, arg>>
    /\ ConcUnchanged

NextCodec == Encode \/ Decode

SpecCodec == InitCodec /\ [][NextCodec]_vars

Encoded == out.applied /\ arg.fn = "fileToID"

Decoded == out.applied /\ arg.fn = "idToFile"

\* an absolute path with no empty element, no "." and no ".." in it
IsCleanAbs(p) ==
    /\ IsAbs(p)
    /\ \/ p = <<"/">>
       \/ \A i \in 2..Len(Elements(p)) :
             Elements(p)[i] \notin {<<>>, <<".">>, <<".", ".">>}

\* an identifier that parses and whose scheme is not "file"
OtherScheme(id) == ~Parse(id).err /\ Parse(id).scheme # SchemeFile

\* C14 as stated: for any absolute path p, idToFile(fileToID(p)) returns
\* exactly p, no other absolute path has the identifier of p, and idToFile
\* fails for any identifier whose scheme is not "file".
C14_RoundTripExact ==
    /\ (Encoded /\ IsAbs(arg.s)) =>
          /\ out.file = [err |-> "", file |-> arg.s]
          /\ \A q \in AbsPaths : IdOf[q] = out.id => q = arg.s
    /\ (Decoded /\ OtherScheme(arg.s)) => out.file.err = "InvalidID"

\* C14: for any path p, idToFile(fileToID(p)) returns the cleaned absolute
\* form of p, which is p itself when p is absolute with no empty, "." or
\* ".." element; two absolute paths have the same identifier only if their
\* cleaned forms are the same; and idToFile fails for any identifier that
\* does not parse or whose scheme is not "file".
C14_RoundTripClean ==
    /\ Encoded =>
          /\ out.file = [err |-> "", file |-> Abs(arg.s)]
          /\ IsCleanAbs(arg.s) => out.file.file = arg.s
          /\ IsAbs(arg.s) =>
                \A q \in AbsPaths :
                    IdOf[q] = out.id =>
                        /\ Abs(q) = Abs(arg.s)
                        /\ (IsCleanAbs(q) /\ IsCleanAbs(arg.s)) => q = arg.s
    /\ Decoded =>
          /\ OtherScheme(arg.s) => out.file.err = "InvalidID"
          /\ Parse(arg.s).err => out.file.err = "InvalidFormat"
          /\ arg.s \in {HttpId, NoSchemeId, NoId} => out.file.err = "InvalidID"

\* a clean absolute path with a "%" in it came back as it was
C14_Witness ==
    /\ Encoded
    /\ arg.s = <<"/", "%", "/", "a">>
    /\ out.id = SchemeFile \o <<":", "/", "/", "/", "%", "2", "5", "/", "a">>
    /\ out.file = [err |-> "", file |-> arg.s]

====
